---- MODULE Spec2Model ----
(***************************************************************************)
(* The GRBL device engine of gcode-proxy (device/grbl_device.py) together  *)
(* with the server's command path (core/server.py), the task model         *)
(* (core/task.py), the trigger table lookup (trigger/trigger_manager.py)   *)
(* and a GRBL firmware on the other end of the serial port.                *)
(*                                                                         *)
(* All coroutines run on one asyncio loop, so an action is the code that   *)
(* runs between two suspension points.  The suspension points modelled are *)
(* the await of _resume_event.wait() in _fill_device_buffer, the await of  *)
(* _response_queue.get() in _response_loop, the sleeps of the liveness     *)
(* loop and of the homing grace timer, and the reads of the client         *)
(* connections.  A shell command runs to completion inside the action that *)
(* drains it.                                                              *)
(***************************************************************************)
EXTENDS Integers, Sequences, FiniteSets, TLC

(***************************************************************************)
(* Bounds of the model.                                                    *)
(***************************************************************************)
GrblBufferSize == 8     \* grbl_buffer_size given to GrblDevice.__init__
QueueSize == 2          \* queue_size given to GrblDevice.__init__
MaxCmds == 2            \* client commands read in one behaviour
MaxLines == 1           \* lines the response queue holds before the response loop runs
MaxEvents == 1          \* liveness probes, ALARM: lines and losses of the serial
                        \* connection in one behaviour, taken together
MaxJobs == 3            \* _execute_state_trigger tasks created in one behaviour

Clients == {"A", "B"}
ALL == "ALL"            \* target_uuid None: broadcast

(***************************************************************************)
(* Command bodies.  CtrlX stands for the single byte 0x18; every other     *)
(* body is literal, and all are ASCII.  "0x18" is the four-character text  *)
(* that _handle_realtime_commands also accepts as a soft reset.            *)
(***************************************************************************)
CtrlX == "^"
DwellCmd == "G4 P0"
Commands == {"G0", "$H", "$x", "M0", "M7", "M9", "?", "!", "~", CtrlX, "0x18"}

\* what each client may send: the second client queries, streams and resumes
CommandsOf(c) == IF c = "A" THEN Commands ELSE {"G0", "?", "~"}

StatusWords == {"Idle", "Run", "Home", "Alarm"}

\* str.upper() on the command bodies of the model
Upper(g) == IF g = "$x" THEN "$X" ELSE IF g = "$h" THEN "$H" ELSE g

\* GCodeTask.__post_init__: a newline is appended, char_count = len(gcode)
CharCount(g) == Len(g) + 1

\* GRBL_IMMEDIATE_COMMANDS_RE.search: \?|M0|M1|M2|M30|!|~|\x18 anywhere
is_immediate_grbl_command(g) == g \in {"?", "!", "~", CtrlX, "M0"}

GCodeTask(c, g, r, i) ==
    [kind |-> "gcode", client |-> c, gcode |-> g, should_respond |-> r,
     wait_for_idle |-> FALSE, char_count |-> CharCount(g), id |-> i]

\* Task.char_count defaults to 0 for a ShellTask
ShellTask(c, r, w, i) ==
    [kind |-> "shell", client |-> c, gcode |-> "", should_respond |-> r,
     wait_for_idle |-> w, char_count |-> 0, id |-> i]

NoTask == [kind |-> "none", client |-> "none", gcode |-> "", should_respond |-> FALSE,
           wait_for_idle |-> FALSE, char_count |-> 0, id |-> 0]

\* A cleaned line of the response queue; ack, ackg and ackc are the id, the
\* body and the client of the command the firmware answers with it (0, ""
\* and "none" when it answers none, 0 and "?" when it answers a liveness probe).
Line(k, w, x) == [kind |-> k, word |-> w, ack |-> x.id, ackg |-> x.g, ackc |-> x.c]
NoCmd == [g |-> "", id |-> 0, c |-> "none"]
NoLine == Line("none", "", NoCmd)

LineText(l) ==
    CASE l.kind = "ok" -> "ok"
      [] l.kind = "error" -> "error:20"
      [] l.kind = "ALARM" -> "ALARM:1"
      [] l.kind = "status" -> "<status>"
      [] l.kind = "banner" -> "Grbl 1.1"
      [] OTHER -> ""

\* A ConnectionTask handed to ConnectionManager.communicate; ack and ackg
\* are the id and the body of the request the text answers.
Msg(t, d, a, g) == [to |-> t, data |-> d, ack |-> a, ackg |-> g]

(***************************************************************************)
(* Triggers.  A regex is the set of strings it matches.  A GCode trigger   *)
(* has a behavior, a synchronize flag and a state restriction ("" for      *)
(* none); a state trigger has a delay.                                     *)
(***************************************************************************)
GCodeTrigger(id, m, b, sync, st) ==
    [id |-> id, match |-> m, behavior |-> b, synchronize |-> sync, state |-> st]

StateTrigger(id, m, d) == [id |-> id, match |-> m, delay |-> d]

\* M9 is captured by a synchronized trigger, M7 by one that is not
PlainConfig ==
    [gcode |-> <<GCodeTrigger("sync", {"M9"}, "capture", TRUE, ""),
                 GCodeTrigger("plain", {"M7"}, "capture", FALSE, "")>>,
     state |-> <<>>]

\* M5 is captured while the device is Idle; a delayed command runs once the
\* device has been Idle or Run for the delay
StateConfig ==
    [gcode |-> <<GCodeTrigger("idle", {"M5"}, "capture", FALSE, "Idle")>>,
     state |-> <<StateTrigger("T", {"Idle", "Run"}, 1)>>]

\* Trigger.matches
Trigger_matches(trigger, gcode, current_state) ==
    /\ trigger.state # "" => current_state = trigger.state
    /\ gcode \in trigger.match

\* TriggerManager.find_matching_gcode_triggers: the matching triggers, in
\* the order of the configuration, against the state the manager has stored
find_matching_gcode_triggers(tm, gcode) ==
    SelectSeq(tm.gcode, LAMBDA trigger : Trigger_matches(trigger, gcode, tm.current))

\* the tasks of one matching trigger in TriggerManager.build_tasks_for_gcode
TasksOf(trigger, g, c, i) ==
    (IF trigger.behavior = "forward" THEN <<GCodeTask(c, g, TRUE, i)>> ELSE <<>>)
    \o <<ShellTask(c, trigger.behavior # "forward",
                   trigger.synchronize /\ trigger.behavior # "forward", i)>>

RECURSIVE TasksOfAll(_, _, _, _)
TasksOfAll(matching, g, c, i) ==
    IF matching = <<>> THEN <<>>
    ELSE TasksOf(Head(matching), g, c, i) \o TasksOfAll(Tail(matching), g, c, i)

\* TriggerManager.build_tasks_for_gcode; <<>> stands for None
build_tasks_for_gcode(tm, g, c, i) ==
    TasksOfAll(find_matching_gcode_triggers(tm, g), g, c, i)

VARIABLES
    connected,      \* GCodeDevice._connected
    running,        \* GrblDevice._running
    transport,      \* GCodeSerialProtocol.transport is not None
    taskQueue,      \* GCodeDevice.task_queue
    inFlight,       \* GrblDevice._in_flight_queue
    bufferQuota,    \* GrblDevice._buffer_quota
    skippableOks,   \* GrblDevice._skippable_oks
    bufferPaused,   \* GrblDevice.buffer_paused
    resumeSet,      \* GrblDevice._resume_event.is_set()
    status,         \* GrblDeviceState.state
    homing,         \* GrblDeviceState.homing
    responseQueue,  \* GrblDevice._response_queue
    waiters,        \* coroutines suspended in _resume_event.wait()
    woken,          \* coroutines whose wait() has returned and that are ready to run
    homingTimers,   \* complete_homing_task coroutines sleeping the grace period
    swallowOk,      \* GrblDevice.swallow_realtime_ok
    okOnQuery,      \* firmware: the newline after "?" is answered with ok
    devBuf,         \* firmware: lines received and not yet answered
    devQ,           \* firmware: status queries received and not yet answered
    devBanner,      \* firmware: soft reset received, banner not yet printed
    ncmds,          \* the number of command lines the server has read
    owed,           \* per client: the requests still owed a terminal response, oldest first
    pendingQ,       \* clients whose forwarded "?" has not seen a status report yet
    alarmSeen,      \* an ALARM: line was handled and nothing has cleared the alarm since
    events,         \* liveness probes, alarms and connection losses so far
    fx,             \* what the last action did
    triggers,       \* TriggerManager.gcode_triggers and .state_triggers
    tmState,        \* TriggerManager._current_device_state
    notices,        \* on_device_status tasks created and not yet run
    pending,        \* TriggerManager._pending_state_triggers
    jobs,           \* the _execute_state_trigger tasks created so far
    lastBuild,      \* the last call of build_tasks_for_gcode and its result
    writer_to_uuid, \* ConnectionManager.writer_to_uuid
    uuid_to_writer, \* ConnectionManager.uuid_to_writer
    outbound,       \* ConnectionManager.task_queue
    workerRunning,  \* ConnectionManager._running, with _process_queue alive
    activeConnections, \* GCodeServer._active_connections, by the writer of each handler
    serverRunning,  \* GCodeServer._running
    closedWriters,  \* the writers close() was called on
    failedWriters,  \* the writers a write has failed on
    received,       \* per writer: the data written to it, oldest first
    issued,         \* the number of client ids register_client has drawn
    stops,          \* the calls of GCodeProxyService.stop that have returned
    deviceTasks,    \* the live tasks GrblDevice holds a reference to
    orphans,        \* the live _handle_reconnect tasks GrblDevice holds no reference to
    reconnecting    \* a _handle_reconnect task is past disconnect(), inside connect()

vars == <<connected, running, transport, taskQueue, inFlight, bufferQuota, skippableOks,
          bufferPaused, resumeSet, status, homing, responseQueue, waiters, woken,
          homingTimers, swallowOk, okOnQuery, devBuf, devQ, devBanner, ncmds, owed,
          pendingQ, alarmSeen, events, fx,
          triggers, tmState, notices, pending, jobs, lastBuild,
          writer_to_uuid, uuid_to_writer, outbound, workerRunning, activeConnections,
          serverRunning, closedWriters, failedWriters, received, issued, stops,
          deviceTasks, orphans, reconnecting>>

tmVars == <<triggers, tmState, notices, pending, jobs, lastBuild>>

\* the connection manager and the server
netVars == <<writer_to_uuid, uuid_to_writer, outbound, workerRunning, activeConnections,
             serverRunning, closedWriters, failedWriters, received, issued, stops>>

\* the tasks of the device engine
loopVars == <<deviceTasks, orphans, reconnecting>>


(***************************************************************************)
(* The device engine as a record, so that a handler and the handlers it    *)
(* calls can be composed; wrote .. enq collect what the running action     *)
(* does.                                                                   *)
(***************************************************************************)
NoSnap == [ifq |-> <<>>, tq |-> <<>>, rq |-> <<>>, quota |-> GrblBufferSize, skip |-> 0,
           paused |-> FALSE, resume |-> TRUE]

Cur(shOk) ==
    [connected |-> connected, running |-> running, transport |-> transport,
     tq |-> taskQueue, ifq |-> inFlight, quota |-> bufferQuota, skip |-> skippableOks,
     paused |-> bufferPaused, resume |-> resumeSet, status |-> status, homing |-> homing,
     rq |-> responseQueue, waiters |-> waiters, woken |-> woken, timers |-> homingTimers,
     shOk |-> shOk,
     tm |-> [gcode |-> triggers.gcode, current |-> tmState], notify |-> <<>>,
     wrote |-> <<>>, msgs |-> <<>>, ran |-> <<>>, popped |-> <<>>, reset |-> FALSE,
     snap |-> NoSnap, headWas |-> "-", enq |-> FALSE, lost |-> <<>>]

\* GrblDevice._send: write to the serial port; a command that is not
\* immediate is deducted from the quota.  GCodeSerialProtocol.write drops the
\* data when the transport is gone; the protocol object exists whenever the
\* engine is connected, so SerialConnectionError is not raised.
SendQuota(s, task) ==
    IF is_immediate_grbl_command(task.gcode) THEN s.quota ELSE s.quota - task.char_count

_send(s, task) ==
    [s EXCEPT !.wrote = IF s.transport
                        THEN Append(@, [g |-> task.gcode, id |-> task.id,
                                        c |-> task.client, room |-> s.quota])
                        ELSE @,
              !.quota = SendQuota(s, task)]

\* Task.send_response -> ConnectionManager.communicate
send_response(s, task, text, a, g) ==
    [s EXCEPT !.msgs = Append(@, Msg(IF task.client = "none" THEN ALL ELSE task.client,
                                     text, a, g))]

\* GrblDevice._broadcast_data_to_clients
_broadcast_data_to_clients(s, text) ==
    [s EXCEPT !.msgs = Append(@, Msg(ALL, text, 0, ""))]

\* GrblDevice._is_homing
_is_homing(task) == task.kind = "gcode" /\ Upper(task.gcode) = "$H"

\* GrblDevice._get_oldest_gcode_task
_get_oldest_gcode_task(s) ==
    IF s.ifq # <<>> /\ Head(s.ifq).kind = "gcode" THEN Head(s.ifq) ELSE NoTask

\* GrblDevice._is_homing_in_flight
_is_homing_in_flight(s) == _is_homing(_get_oldest_gcode_task(s))

\* GrblDevice._respond_to_client
_respond_to_client(s, text) ==
    LET task == _get_oldest_gcode_task(s)
        s1 == [s EXCEPT !.headWas = task.gcode]
    IN IF task.kind = "gcode" /\ task.should_respond
       THEN send_response(s1, task, text, 0, "")
       ELSE s1

\* GrblDevice._is_command_allowed_in_alarm
AllowedInAlarmBug(task) == TRUE
_is_command_allowed_in_alarm(task) ==
    IF task.kind # "gcode" THEN TRUE
    ELSE Upper(task.gcode) = "$X" \/ Upper(task.gcode) = "$H"

\* the bodies of the tasks of q that require a response
RECURSIVE Responding(_)
Responding(q) ==
    IF q = <<>> THEN <<>>
    ELSE (IF Head(q).should_respond THEN <<Head(q).gcode>> ELSE <<>>) \o Responding(Tail(q))

\* GrblDevice._initialize_device.  buffer_paused is not assigned; the tasks
\* in the two queues are dropped, nothing is sent to their clients.
_initialize_device(s) ==
    LET s1 == [s EXCEPT !.tq = <<>>, !.ifq = <<>>, !.rq = <<>>,
                        !.quota = GrblBufferSize, !.skip = 0,
                        !.status = "Unknown", !.homing = "off",
                        !.resume = TRUE,
                        !.woken = @ \o s.waiters, !.waiters = <<>>]
    IN [s1 EXCEPT !.reset = TRUE,
                  !.lost = @ \o Responding(s.ifq) \o Responding(s.tq),
                  !.snap = [ifq |-> s1.ifq, tq |-> s1.tq, rq |-> s1.rq, quota |-> s1.quota,
                            skip |-> s1.skip, paused |-> s1.paused, resume |-> s1.resume]]

\* GrblDevice._drain_non_gcode_tasks; ShellTask.execute succeeds iff s.shOk
RECURSIVE _drain_non_gcode_tasks(_)
_drain_non_gcode_tasks(s) ==
    IF s.ifq # <<>> /\ Head(s.ifq).kind # "gcode"
    THEN LET shell_task == Head(s.ifq)
             s1 == [s EXCEPT !.ifq = Tail(@),
                             !.paused = IF shell_task.wait_for_idle THEN FALSE ELSE @,
                             !.ran = Append(@, [id |-> shell_task.id,
                                                wait_for_idle |-> shell_task.wait_for_idle])]
             s2 == IF shell_task.should_respond
                   THEN send_response(s1, shell_task,
                                      IF s.shOk THEN "ok" ELSE "error: sh", shell_task.id, "sh")
                   ELSE s1
         IN _drain_non_gcode_tasks(s2)
    ELSE s

(***************************************************************************)
(* GrblDevice._fill_device_buffer.  FillLoop is the while statement from   *)
(* its condition; FillBody is the loop body from the try statement, which  *)
(* is also where a coroutine continues after _resume_event.wait().  who is *)
(* the coroutine that runs the loop; when the event is clear it is parked  *)
(* in waiters and the action ends.                                         *)
(***************************************************************************)
RECURSIVE FillLoop(_, _), FillBody(_, _)
FillLoop(s, who) ==
    IF ~(s.running /\ s.quota > 0 /\ ~s.paused) THEN _drain_non_gcode_tasks(s)
    ELSE IF ~s.resume THEN [s EXCEPT !.waiters = Append(@, who)]
    ELSE FillBody(s, who)

FillBody(s, who) ==
    IF s.tq = <<>> THEN _drain_non_gcode_tasks(s)
    ELSE IF Head(s.tq).char_count > s.quota THEN _drain_non_gcode_tasks(s)
    ELSE LET task == Head(s.tq)
             s1 == [s EXCEPT !.tq = Tail(@)]
         IN IF task.kind = "gcode"
            THEN LET s2 == _send(s1, task)
                     s3 == IF _is_homing(task)
                           THEN [s2 EXCEPT !.homing = "queued"] ELSE s2
                 IN FillLoop([s3 EXCEPT !.ifq = Append(@, task)], who)
            ELSE IF task.wait_for_idle
                 THEN LET dwell_task == GCodeTask("none", DwellCmd, FALSE, 0 - task.id)
                          s2 == [s1 EXCEPT !.paused = TRUE, !.ifq = Append(@, dwell_task)]
                          s3 == _send(s2, dwell_task)
                      IN FillLoop([s3 EXCEPT !.ifq = Append(@, task)], who)
                 ELSE FillLoop([s1 EXCEPT !.ifq = Append(@, task)], who)

_fill_device_buffer(s, who) == FillLoop(s, who)

\* GrblDevice._handle_task_completion: the homing phase after the pop
HomingAfterBug(s, completed_task) == s.homing
HomingAfter(s, completed_task) ==
    IF _is_homing(completed_task) THEN "off" ELSE s.homing

\* GrblDevice._handle_task_completion; a and g are the id and the body of
\* the command the firmware answered with the line
_handle_task_completion(s, text, a, g, who) ==
    IF s.ifq = <<>> THEN s
    ELSE LET completed_task == Head(s.ifq)
             s1 == [s EXCEPT !.ifq = Tail(@),
                             !.popped = Append(@, [ack |-> a, ackg |-> g, id |-> completed_task.id,
                                                   gcode |-> completed_task.gcode,
                                                   client |-> completed_task.client])]
             s2 == IF completed_task.kind = "gcode"
                      /\ ~is_immediate_grbl_command(completed_task.gcode)
                   THEN [s1 EXCEPT !.quota = @ + completed_task.char_count] ELSE s1
             s3 == [s2 EXCEPT !.homing = HomingAfter(s2, completed_task)]
             s4 == IF completed_task.should_respond
                   THEN send_response(s3, completed_task, text, a, g) ELSE s3
         IN _fill_device_buffer(_drain_non_gcode_tasks(s4), who)

\* GrblDevice._should_swallow_ok
_should_swallow_ok(s) == swallowOk /\ s.skip # 0

\* GrblDevice._handle_ok_response
_handle_ok_response(s, l, who) ==
    IF _should_swallow_ok(s) THEN [s EXCEPT !.skip = @ - 1]
    ELSE _handle_task_completion(s, LineText(l), l.ack, l.ackg, who)

\* GrblDeviceState.parse_state_str of a well-formed report
parse_state_str(l) == l.word

\* GrblDevice._handle_state_update.  self.device_state is the state object,
\* so its comparison with "Alarm" is false and no reset follows.
_handle_state_update(s, l) ==
    LET old_status == s.status
        s0 == [s EXCEPT !.status = parse_state_str(l)]
        s1 == IF s0.status # old_status THEN [s0 EXCEPT !.notify = Append(@, s0.status)]
              ELSE s0
    IN IF s1.status # old_status /\ s1.homing = "queued"
          /\ old_status = "Home" /\ s1.status = "Idle"
       THEN [s1 EXCEPT !.homing = "complete", !.timers = @ + 1]
       ELSE s1

\* GrblDevice._handle_response_line (status_behavior is FORWARD)
_handle_response_line(s, l, who) ==
    CASE l.kind = "ok" -> _handle_ok_response(s, l, who)
      [] l.kind = "error" -> _handle_task_completion(s, LineText(l), l.ack, l.ackg, who)
      [] l.kind = "ALARM" ->
            _initialize_device(
                _broadcast_data_to_clients([s EXCEPT !.status = "Alarm"], LineText(l)))
      [] l.kind = "status" -> _handle_state_update(_respond_to_client(s, LineText(l)), l)
      [] l.kind = "banner" ->
            _initialize_device(_broadcast_data_to_clients(s, LineText(l)))
      [] OTHER -> s

\* GrblDevice._handle_realtime_commands; rt tells whether the task was one
RealtimeCommands == {CtrlX, "0x18", "?", "!", "~"}

_handle_realtime_commands(s, task) ==
    LET g == task.gcode
        resend == GCodeTask("none", g, TRUE, task.id)
    IN CASE task.kind # "gcode" -> s
         [] g = CtrlX \/ g = "0x18" -> _send(_initialize_device(s), resend)
         [] g = "?" -> _send([s EXCEPT !.ifq = <<task>> \o @], resend)
         [] g = "!" -> _send([s EXCEPT !.status = "Hold", !.resume = FALSE], resend)
         [] g = "~" -> _send([s EXCEPT !.status = "Run", !.resume = TRUE,
                                       !.woken = @ \o s.waiters, !.waiters = <<>>],
                             resend)
         [] OTHER -> s

IsRealtime(task) == task.kind = "gcode" /\ task.gcode \in RealtimeCommands

\* GrblDevice.do_task
do_task(s, task, who) ==
    IF ~s.connected
    THEN IF task.should_respond
         THEN send_response(s, task, "error: device offline", task.id, task.gcode) ELSE s
    ELSE IF IsRealtime(task) THEN _handle_realtime_commands(s, task)
    ELSE IF s.status = "Alarm" /\ ~_is_command_allowed_in_alarm(task)
    THEN IF task.should_respond
         THEN send_response(s, task, "error:9", task.id, task.gcode) ELSE s
    ELSE _fill_device_buffer([s EXCEPT !.tq = Append(@, task), !.enq = TRUE], who)


(***************************************************************************)
(* The firmware.  It answers every line it receives with one ok or error, *)
(* in the order received; "?" is answered at once with a status report    *)
(* and, on a firmware that acknowledges the empty line left by "?\n",      *)
(* with an ok queued behind the lines received before it.  The byte 0x18   *)
(* restarts it: the lines it held are dropped and the banner is printed.   *)
(***************************************************************************)
RECURSIVE DevReceive(_, _)
DevReceive(d, w) ==
    IF w = <<>> THEN d
    ELSE LET x == [g |-> Head(w).g, id |-> Head(w).id, c |-> Head(w).c]
             d1 == CASE x.g = "?" ->
                         [d EXCEPT !.q = Append(@, x),
                                   !.buf = IF okOnQuery THEN Append(@, x) ELSE @]
                      [] x.g \in {"!", "~"} -> d
                      [] x.g = CtrlX -> [buf |-> <<>>, q |-> <<>>, banner |-> TRUE]
                      [] OTHER -> [d EXCEPT !.buf = Append(@, x)]
         IN DevReceive(d1, Tail(w))

\* GCodeDevice.queue_full
queue_full(s) == Len(s.tq) >= QueueSize

QueueFullText ==
    "error: command queue is full (limit: " \o ToString(QueueSize) \o ")"

\* GCodeServer._queue_command: the command is built into tasks and each
\* task is handed to do_task; a command that finds the pending queue full
\* is answered with the queue-full error and dropped.
_queue_commandBug(s, c, g, i) ==
    LET built == build_tasks_for_gcode(s.tm, g, c, i)
        tasks_to_queue == IF built = <<>> THEN <<GCodeTask(c, g, TRUE, i)>> ELSE built
    IN IF queue_full(s)
       THEN [s EXCEPT !.tq = Append(@, tasks_to_queue[1])]
       ELSE do_task(s, tasks_to_queue[1], c)

_queue_command(s, c, g, i) ==
    LET built == build_tasks_for_gcode(s.tm, g, c, i)
        tasks_to_queue == IF built = <<>> THEN <<GCodeTask(c, g, TRUE, i)>> ELSE built
    IN IF queue_full(s)
       THEN [s EXCEPT !.msgs = <<Msg(c, QueueFullText, i, g)>>]
       ELSE do_task(s, tasks_to_queue[1], c)

(***************************************************************************)
(* The clients' view.  A terminal response is an ok or an error text; a   *)
(* client takes the i-th one it receives as the answer to its i-th        *)
(* request.  owed lists, per client, the requests not yet answered;       *)
(* Deliver removes the oldest one for every terminal response sent to the *)
(* client and tells whether each response was the answer to that request  *)
(* (a response that answers no client command, ack 0, passes for any).    *)
(* Requests that a running-state reset or a disconnect found unanswered    *)
(* are forgotten.                                                          *)
(***************************************************************************)
Terminal(m) ==
    m.data \in {"ok", "error:20", "error:9", "error: device offline",
                QueueFullText, "error: sh"}

RECURSIVE Deliver(_, _)
Deliver(o, msgs) ==
    IF msgs = <<>> THEN o
    ELSE LET m == Head(msgs)
             q == IF m.to \in Clients THEN o.owed[m.to] ELSE <<>>
         IN IF Terminal(m) /\ m.to \in Clients
            THEN Deliver([owed |-> IF q = <<>> THEN o.owed
                                   ELSE [o.owed EXCEPT ![m.to] = Tail(q)],
                          ok |-> o.ok /\ q # <<>> /\ (m.ack <= 0 \/ m.ack = Head(q))],
                         Tail(msgs))
            ELSE Deliver(o, Tail(msgs))

NoneOwed == [c \in Clients |-> <<>>]

Busy(who) == \/ \E i \in 1..Len(waiters) : waiters[i] = who
             \/ \E j \in 1..Len(woken) : woken[j] = who

Without(q, who) == SelectSeq(q, LAMBDA x : x # who)

\* the engine variables after a handler, and the firmware after the writes
Commit(s) ==
    /\ connected' = s.connected
    /\ running' = s.running
    /\ transport' = s.transport
    /\ taskQueue' = s.tq
    /\ inFlight' = s.ifq
    /\ bufferQuota' = s.quota
    /\ skippableOks' = s.skip
    /\ bufferPaused' = s.paused
    /\ resumeSet' = s.resume
    /\ status' = s.status
    /\ homing' = s.homing
    /\ responseQueue' = s.rq
    /\ waiters' = s.waiters
    /\ woken' = s.woken
    /\ homingTimers' = s.timers
    /\ LET d == DevReceive([buf |-> devBuf, q |-> devQ, banner |-> devBanner], s.wrote)
       IN devBuf' = d.buf /\ devQ' = d.q /\ devBanner' = d.banner

\* what an action of the proxy did; inOrder: every terminal response it
\* sent answered the oldest request its client was owed
Effect(op, who, task, line, s, inOrder) ==
    [op |-> op, who |-> who, task |-> task, line |-> line,
     wrote |-> s.wrote, msgs |-> s.msgs, ran |-> s.ran, popped |-> s.popped,
     reset |-> s.reset, snap |-> s.snap, headWas |-> s.headWas, enq |-> s.enq,
     lost |-> s.lost,
     statusWas |-> status, connectedWas |-> connected, alarmWas |-> alarmSeen,
     pausedWas |-> bufferPaused,
     owedTo |-> IF pendingQ = <<>> THEN "none" ELSE Head(pendingQ),
     inOrder |-> inOrder]

\* an action of the firmware or of the port leaves no effect of the proxy
Quiet ==
    [op |-> "env", who |-> "none", task |-> NoTask, line |-> NoLine,
     wrote |-> <<>>, msgs |-> <<>>, ran |-> <<>>, popped |-> <<>>,
     reset |-> FALSE, snap |-> NoSnap, headWas |-> "-", enq |-> FALSE,
     lost |-> <<>>,
     statusWas |-> "-", connectedWas |-> FALSE, alarmWas |-> FALSE,
     pausedWas |-> FALSE,
     owedTo |-> "none", inOrder |-> TRUE]

\* the ghost bookkeeping of a proxy action that read no command
Account(op, who, line, s) ==
    LET o == Deliver([owed |-> owed, ok |-> TRUE], s.msgs)
    IN /\ owed' = IF s.reset THEN NoneOwed ELSE o.owed
       /\ fx' = Effect(op, who, NoTask, line, s, o.ok)

\* the trigger manager after construction
NoTriggerActivity ==
    /\ tmState = "Disconnected"
    /\ notices = <<>>
    /\ pending = <<>>
    /\ jobs = <<>>
    /\ lastBuild = <<>>

\* asyncio.create_task(TriggerManager().on_device_status(status)) for the
\* status changes of a handler.  A manager without state triggers and
\* without state restrictions stores the status and nothing reads it: its
\* notifications are left out.
Notified(s) ==
    IF triggers.state = <<>> /\ \A i \in 1..Len(triggers.gcode) : triggers.gcode[i].state = ""
    THEN notices
    ELSE notices \o s.notify

\* the connections the server may accept, by their StreamWriter
Writers == {"w1", "w2"}

\* the tasks connect() creates and keeps a reference to
AllLoops == {"reconnect", "response", "liveness"}

EmptyMap == [x \in {} |-> 0]

\* ConnectionManager.__init__: no client is registered, nothing is queued
NoClients ==
    /\ writer_to_uuid = EmptyMap
    /\ uuid_to_writer = EmptyMap
    /\ outbound = <<>>
    /\ activeConnections = {}
    /\ closedWriters = {}
    /\ failedWriters = {}
    /\ received = [w \in Writers |-> <<>>]
    /\ issued = 0
    /\ stops = 0

\* the service before GCodeProxyService.start
NotStarted ==
    /\ NoClients
    /\ workerRunning = FALSE
    /\ serverRunning = FALSE
    /\ deviceTasks = {}
    /\ orphans = 0
    /\ reconnecting = FALSE

\* the service when GCodeProxyService.start has returned
Started ==
    /\ NoClients
    /\ workerRunning = TRUE
    /\ serverRunning = TRUE
    /\ deviceTasks = AllLoops
    /\ orphans = 0
    /\ reconnecting = FALSE

InitEngine ==
    /\ NotStarted
    /\ connected = FALSE /\ running = FALSE /\ transport = FALSE
    /\ taskQueue = <<>> /\ inFlight = <<>>
    /\ bufferQuota = GrblBufferSize
    /\ skippableOks = 0
    /\ bufferPaused = FALSE
    /\ resumeSet = TRUE
    /\ status = "Unknown" /\ homing = "off"
    /\ responseQueue = <<>>
    /\ waiters = <<>> /\ woken = <<>> /\ homingTimers = 0
    \* swallow_realtime_ok is configured to match the firmware: it is set
    \* exactly when the firmware answers the line end after "?" with ok
    /\ swallowOk \in BOOLEAN
    /\ okOnQuery = swallowOk
    /\ devBuf = <<>> /\ devQ = <<>> /\ devBanner = FALSE
    /\ ncmds = 0
    /\ owed = NoneOwed
    /\ pendingQ = <<>>
    /\ alarmSeen = FALSE
    /\ events = 0
    /\ fx = Quiet

Init ==
    /\ InitEngine
    /\ triggers = PlainConfig
    /\ NoTriggerActivity

\* GrblDevice.connect, once wait_for_device has found the port: called by
\* GCodeProxyService.start, which goes on to start the connection manager
\* and the server, or by the _handle_reconnect task that tore the
\* connection down.  connect() stores a new _handle_reconnect task in
\* _reconnect_task; the task that called it goes back to waiting in its loop
Connect ==
    /\ ~connected
    /\ reconnecting \/ (stops = 0 /\ ~serverRunning)
    /\ deviceTasks' = AllLoops
    /\ orphans' = IF reconnecting THEN 1 ELSE 0
    /\ reconnecting' = FALSE
    /\ workerRunning' = TRUE
    /\ serverRunning' = TRUE
    /\ UNCHANGED <<writer_to_uuid, uuid_to_writer, outbound, activeConnections,
                   closedWriters, failedWriters, received, issued, stops>>
    /\ LET s0 == [Cur(TRUE) EXCEPT !.rq = <<>>, !.transport = TRUE]
           s1 == _initialize_device(s0)
           s == [s1 EXCEPT !.connected = TRUE, !.running = TRUE]
       IN Commit(s) /\ Account("connect", "none", NoLine, s)
    /\ pendingQ' = <<>>
    /\ alarmSeen' = FALSE
    /\ UNCHANGED tmVars
    /\ UNCHANGED <<swallowOk, okOnQuery, ncmds, events>>

\* GCodeServer._queue_command for one command line read from client c
QueueCommand(c, g, shOk) ==
    /\ ncmds < MaxCmds
    /\ ~Busy(c)
    /\ LET i == ncmds + 1
           full == queue_full(Cur(shOk))
           built == build_tasks_for_gcode(Cur(shOk).tm, g, c, i)
           tasks_to_queue == IF built = <<>> THEN <<GCodeTask(c, g, TRUE, i)>> ELSE built
           task == tasks_to_queue[1]
           s == _queue_command(Cur(shOk), c, g, i)
           handledRealtime == ~full /\ connected /\ IsRealtime(task)
           isOwed == ~handledRealtime \/ (g = "?" /\ okOnQuery)
           o0 == IF s.reset THEN NoneOwed ELSE owed
           o1 == IF isOwed THEN [o0 EXCEPT ![c] = Append(@, i)] ELSE o0
           o == Deliver([owed |-> o1, ok |-> TRUE], s.msgs)
       IN /\ Commit(s)
          /\ owed' = o.owed
          /\ fx' = Effect(IF full THEN "queue_full" ELSE "do_task", c, task, NoLine, s, o.ok)
          /\ pendingQ' = IF s.reset THEN <<>>
                         ELSE IF g = "?" /\ handledRealtime THEN Append(pendingQ, c)
                         ELSE pendingQ
          /\ alarmSeen' = IF s.reset \/ (s.enq /\ Upper(g) \in {"$X", "$H"})
                          THEN FALSE ELSE alarmSeen
    /\ ncmds' = ncmds + 1
    /\ UNCHANGED tmVars
    /\ UNCHANGED <<swallowOk, okOnQuery, netVars, loopVars, events>>

\* GrblDevice._response_loop: one line of the response queue
HandleLine(shOk) ==
    /\ running
    /\ responseQueue # <<>>
    /\ ~Busy("resp")
    /\ LET l == Head(responseQueue)
           s == _handle_response_line([Cur(shOk) EXCEPT !.rq = Tail(@)], l, "resp")
       IN /\ Commit(s)
          /\ Account("line", "resp", l, s)
          /\ notices' = Notified(s)
          /\ pendingQ' = IF s.reset THEN <<>>
                         ELSE IF l.kind = "status" /\ pendingQ # <<>> THEN Tail(pendingQ)
                         ELSE pendingQ
          /\ alarmSeen' = CASE l.kind = "ALARM" -> TRUE
                            [] l.kind \in {"status", "banner"} -> FALSE
                            [] OTHER -> alarmSeen
    /\ UNCHANGED <<triggers, tmState, pending, jobs, lastBuild, swallowOk, okOnQuery, netVars, loopVars, ncmds, events>>

\* a coroutine parked in _fill_device_buffer continues after wait() returned
Wake(shOk) ==
    /\ woken # <<>>
    /\ LET who == Head(woken)
           s == FillBody([Cur(shOk) EXCEPT !.woken = Tail(@)], who)
       IN Commit(s) /\ Account("wake", who, NoLine, s)
    /\ UNCHANGED tmVars
    /\ UNCHANGED <<swallowOk, okOnQuery, netVars, loopVars, ncmds, pendingQ, alarmSeen, events>>

\* complete_homing_task of _handle_state_update, after its grace period
HomingTimer(shOk) ==
    /\ homingTimers > 0
    /\ LET s0 == [Cur(shOk) EXCEPT !.timers = @ - 1]
           s == IF _is_homing_in_flight(s0) /\ s0.homing = "complete"
                THEN _handle_task_completion(s0, "ok", Head(s0.ifq).id, "$H", "timer")
                ELSE s0
       IN Commit(s) /\ Account("homing", "timer", NoLine, s)
    /\ UNCHANGED tmVars
    /\ UNCHANGED <<swallowOk, okOnQuery, netVars, loopVars, ncmds, pendingQ, alarmSeen, events>>

\* GrblDevice._liveness_task_loop: one period has passed
LivenessProbe ==
    /\ running
    /\ events < MaxEvents
    /\ LET s1 == _send(Cur(TRUE), GCodeTask("none", "?", FALSE, 0))
           s == IF swallowOk THEN [s1 EXCEPT !.skip = @ + 1] ELSE s1
       IN Commit(s) /\ Account("liveness", "liveness", NoLine, s)
    /\ events' = events + 1
    /\ UNCHANGED tmVars
    /\ UNCHANGED <<swallowOk, okOnQuery, netVars, loopVars, ncmds, pendingQ, alarmSeen>>

\* GCodeSerialProtocol.connection_lost: the port is gone
ConnectionLost ==
    /\ connected /\ transport
    /\ events < MaxEvents
    /\ transport' = FALSE
    /\ devBuf' = <<>> /\ devQ' = <<>> /\ devBanner' = FALSE
    /\ events' = events + 1
    /\ fx' = Quiet
    /\ UNCHANGED tmVars
    /\ UNCHANGED <<connected, running, taskQueue, inFlight, bufferQuota, skippableOks,
                   bufferPaused, resumeSet, status, homing, responseQueue, waiters, woken,
                   homingTimers, swallowOk, okOnQuery, netVars, loopVars, ncmds, owed, pendingQ, alarmSeen>>

\* GrblDevice._handle_reconnect calling GrblDevice.disconnect: the loops
\* are cancelled, the protocol is closed.  The first waiter of the
\* disconnect event runs it: the cancellation of its own task is absorbed
\* by disconnect(), any other supervisor ends; it then enters connect(),
\* which waits for the port
Disconnect ==
    /\ running /\ ~transport
    /\ "reconnect" \in deviceTasks \/ orphans > 0
    /\ deviceTasks' = {"wait"}
    /\ orphans' = 0
    /\ reconnecting' = TRUE
    /\ LET s == [Cur(TRUE) EXCEPT !.running = FALSE, !.connected = FALSE,
                                  !.waiters = Without(@, "resp"),
                                  !.woken = Without(@, "resp")]
       IN /\ Commit(s)
          /\ fx' = Effect("disconnect", "none", NoTask, NoLine, s, TRUE)
    /\ owed' = NoneOwed
    /\ UNCHANGED tmVars
    /\ UNCHANGED <<swallowOk, okOnQuery, netVars, ncmds, pendingQ, alarmSeen, events>>

EngineUnchanged ==
    UNCHANGED <<connected, running, transport, taskQueue, inFlight, bufferQuota,
                skippableOks, bufferPaused, resumeSet, status, homing, waiters, woken,
                homingTimers, swallowOk, okOnQuery, netVars, loopVars, ncmds, owed, pendingQ, alarmSeen>>

FirmwareUnchanged == EngineUnchanged /\ UNCHANGED tmVars

\* the firmware answers the oldest line it holds; the empty line left by a
\* "?" is reached after the status report was printed
DevAck(k) ==
    /\ transport
    /\ Len(responseQueue) < MaxLines
    /\ devBuf # <<>>
    /\ Head(devBuf).g = "?" => k = "ok" /\ devQ = <<>>
    /\ responseQueue' = Append(responseQueue, Line(k, "", Head(devBuf)))
    /\ devBuf' = Tail(devBuf)
    /\ fx' = Quiet
    /\ FirmwareUnchanged
    /\ UNCHANGED <<devQ, devBanner, events>>

\* the firmware prints the status report a "?" asked for
DevStatus(w) ==
    /\ transport
    /\ Len(responseQueue) < MaxLines
    /\ devQ # <<>>
    /\ responseQueue' = Append(responseQueue, Line("status", w, Head(devQ)))
    /\ devQ' = Tail(devQ)
    /\ fx' = Quiet
    /\ FirmwareUnchanged
    /\ UNCHANGED <<devBuf, devBanner, events>>

\* the firmware raises an alarm and drops the lines it held
DevAlarm ==
    /\ transport
    /\ Len(responseQueue) < MaxLines
    /\ events < MaxEvents
    /\ responseQueue' = Append(responseQueue, Line("ALARM", "", NoCmd))
    /\ devBuf' = <<>>
    /\ events' = events + 1
    /\ fx' = Quiet
    /\ FirmwareUnchanged
    /\ UNCHANGED <<devQ, devBanner>>

\* the firmware prints its banner after a soft reset
DevBanner ==
    /\ transport
    /\ Len(responseQueue) < MaxLines
    /\ devBanner
    /\ responseQueue' = Append(responseQueue, Line("banner", "", NoCmd))
    /\ devBanner' = FALSE
    /\ fx' = Quiet
    /\ FirmwareUnchanged
    /\ UNCHANGED <<devBuf, devQ, events>>

Next ==
    \/ Connect
    \/ \E c \in Clients, shOk \in BOOLEAN : \E g \in CommandsOf(c) : QueueCommand(c, g, shOk)
    \/ \E shOk \in BOOLEAN : HandleLine(shOk)
    \/ \E shOk \in BOOLEAN : Wake(shOk)
    \/ \E shOk \in BOOLEAN : HomingTimer(shOk)
    \/ LivenessProbe
    \/ ConnectionLost
    \/ Disconnect
    \/ \E k \in {"ok", "error"} : DevAck(k)
    \/ \E w \in StatusWords : DevStatus(w)
    \/ DevAlarm
    \/ DevBanner

Spec == Init /\ [][Next]_vars

(***************************************************************************)
(* The claims.                                                             *)
(***************************************************************************)
RECURSIVE InFlightChars(_)
InFlightChars(q) ==
    IF q = <<>> THEN 0
    ELSE (IF Head(q).kind = "gcode" /\ ~is_immediate_grbl_command(Head(q).gcode)
          THEN Head(q).char_count ELSE 0) + InFlightChars(Tail(q))

\* the command read by the last action is an ordinary GCode command handed to
\* do_task: a GCodeTask that is no real-time command and neither $X nor $H
OrdinaryGCode ==
    /\ fx.op = "do_task"
    /\ fx.task.kind = "gcode"
    /\ ~IsRealtime(fx.task)
    /\ Upper(fx.task.gcode) \notin {"$X", "$H"}

RejectedInAlarm ==
    /\ fx.msgs = <<Msg(fx.task.client, "error:9", fx.task.id, fx.task.gcode)>>
    /\ ~fx.enq
    /\ fx.wrote = <<>>

C3_AckPopsAckedTask ==
    fx.op = "line" /\ fx.line.kind \in {"ok", "error"} /\ fx.line.ack # 0
        => \A i \in 1..Len(fx.popped) :
              fx.popped[i].ack = fx.line.ack => fx.popped[i].id = fx.line.ack

\* C4: the i-th terminal response (ok or error) a client receives answers
\* that client's i-th responding request.
C4_ResponsesInRequestOrder == fx.inOrder

\* C5: when a client's "?" was admitted while connected, the next status
\* report handled is unicast to that client and to nobody else.
C5_StatusToQuerier ==
    fx.op = "line" /\ fx.line.kind = "status" /\ fx.owedTo # "none"
        => fx.msgs = <<Msg(fx.owedTo, "<status>", 0, "")>>

\* C6: the ok the firmware emits for a client's motion command is delivered
\* to that client only and is not consumed by the "?" task of another client.
C6_MotionOkToOwner ==
    fx.op = "line" /\ fx.line.kind = "ok" /\ fx.line.ackg = "G0" /\ fx.popped # <<>>
        => /\ \A i \in 1..Len(fx.popped) :
                 ~(fx.popped[i].gcode = "?" /\ fx.popped[i].client # fx.line.ackc)
           /\ \A j \in 1..Len(fx.msgs) :
                 fx.msgs[j].ack = fx.line.ack => fx.msgs[j].to = fx.line.ackc

\* C7: a status report is unicast to a client only if the oldest in-flight
\* task is a "?" GCodeTask.
C7_StatusOnlyToQuery ==
    fx.op = "line" /\ fx.line.kind = "status"
        => \A j \in 1..Len(fx.msgs) :
              fx.msgs[j].to \in Clients => fx.headWas = "?"

\* C8 as stated: a GCodeTask handed to do_task while the status is Alarm,
\* whose body is neither $X nor $H, is answered with error:9, is not
\* enqueued and nothing is written for it.
C8_Original ==
    /\ fx.op = "do_task" /\ fx.task.kind = "gcode"
    /\ fx.statusWas = "Alarm"
    /\ Upper(fx.task.gcode) \notin {"$X", "$H"}
    => RejectedInAlarm

\* C8 amended: a GCodeTask handed to do_task while the device is connected
\* and the status is Alarm, whose body is no real-time command and neither
\* $X nor $H, is answered with error:9, is not enqueued and nothing is
\* written for it.
C8_AlarmGate ==
    OrdinaryGCode /\ fx.connectedWas /\ fx.statusWas = "Alarm" => RejectedInAlarm

C8_Witness ==
    /\ OrdinaryGCode /\ fx.connectedWas /\ fx.statusWas = "Alarm"
    /\ fx.task.gcode = "G0"
    /\ RejectedInAlarm

\* C9: once an ALARM: line was handled it has been broadcast and the status
\* is Alarm, and until the alarm is cleared the next ordinary GCode command
\* is answered with error:9, with or without a status report in between.
C9_AlarmLineGates ==
    /\ fx.op = "line" /\ fx.line.kind = "ALARM"
          => /\ \E j \in 1..Len(fx.msgs) : fx.msgs[j] = Msg(ALL, "ALARM:1", 0, "")
             /\ status = "Alarm"
    /\ OrdinaryGCode /\ fx.connectedWas /\ fx.alarmWas => RejectedInAlarm

C11_HomingAnsweredOnce ==
    /\ \A i \in 1..Len(fx.lost) : Upper(fx.lost[i]) # "$H"
    /\ \A i \in 1..Len(fx.popped) :
          Upper(fx.popped[i].gcode) = "$H" /\ fx.popped[i].client \in Clients
              => Cardinality({j \in 1..Len(fx.msgs) :
                                /\ fx.msgs[j].to = fx.popped[i].client
                                /\ Terminal(fx.msgs[j])
                                /\ fx.msgs[j].ack = fx.popped[i].ack}) = 1

Boot ==
    [connected |-> FALSE, running |-> FALSE, transport |-> FALSE,
     tq |-> <<>>, ifq |-> <<>>, quota |-> GrblBufferSize, skip |-> 0,
     paused |-> FALSE, resume |-> TRUE, status |-> "Unknown", homing |-> "off",
     rq |-> <<>>, waiters |-> <<>>, woken |-> <<>>, timers |-> 0,
     shOk |-> TRUE,
     tm |-> [gcode |-> PlainConfig.gcode, current |-> "Disconnected"], notify |-> <<>>,
     wrote |-> <<>>, msgs |-> <<>>, ran |-> <<>>, popped |-> <<>>, reset |-> FALSE,
     snap |-> NoSnap, headWas |-> "-", enq |-> FALSE, lost |-> <<>>]

Backlog ==
    LET s0 == _initialize_device([Boot EXCEPT !.transport = TRUE])
        s1 == [s0 EXCEPT !.connected = TRUE, !.running = TRUE]
        s2 == _queue_command(s1, "A", "M9", 11)
        s3 == _queue_command(s2, "B", "G0", 12)
    IN _queue_command(s3, "B", "G0", 13)

\* the engine and the firmware as the handlers that built s have left them
StartAt(s) ==
    /\ Started
    /\ connected = s.connected
    /\ running = s.running
    /\ transport = s.transport
    /\ taskQueue = s.tq
    /\ inFlight = s.ifq
    /\ bufferQuota = s.quota
    /\ skippableOks = s.skip
    /\ bufferPaused = s.paused
    /\ resumeSet = s.resume
    /\ status = s.status
    /\ homing = s.homing
    /\ responseQueue = s.rq
    /\ waiters = s.waiters
    /\ woken = s.woken
    /\ homingTimers = s.timers
    /\ swallowOk \in BOOLEAN
    /\ okOnQuery = swallowOk
    /\ LET d == DevReceive([buf |-> <<>>, q |-> <<>>, banner |-> FALSE], s.wrote)
       IN devBuf = d.buf /\ devQ = d.q /\ devBanner = d.banner

InitBacklog ==
    /\ StartAt(Backlog)
    /\ ncmds = 0
    /\ owed = [c \in Clients |->
                 IF c = "A" THEN <<11>>
                 ELSE <<12, 13>>]
    /\ pendingQ = <<>>
    /\ alarmSeen = FALSE
    /\ events = 0
    /\ fx = Quiet
    /\ triggers = PlainConfig
    /\ NoTriggerActivity

\* the clients, the response loop and the firmware; the port stays up
NextBacklog ==
    \/ \E c \in Clients, shOk \in BOOLEAN : \E g \in CommandsOf(c) : QueueCommand(c, g, shOk)
    \/ \E shOk \in BOOLEAN : HandleLine(shOk)
    \/ \E shOk \in BOOLEAN : Wake(shOk)
    \/ \E k \in {"ok", "error"} : DevAck(k)
    \/ \E w \in StatusWords : DevStatus(w)

BacklogSpec == InitBacklog /\ [][NextBacklog]_vars

\* C20: a command that finds the pending queue full is answered with the
\* queue-full error and nothing else happens: the pending and in-flight
\* queues and the bytes at the firmware are unchanged, and the client is
\* not left waiting inside the engine.
C20_QueueFullDropsCommand ==
    [][fx'.op = "queue_full"
          => /\ Len(fx'.msgs) = 1
             /\ fx'.msgs[1].to = fx'.who /\ fx'.msgs[1].data = QueueFullText
             /\ taskQueue' = taskQueue /\ inFlight' = inFlight
             /\ devBuf' = devBuf /\ devQ' = devQ /\ devBanner' = devBanner
             /\ \A i \in 1..Len(waiters') : waiters'[i] # fx'.who
             /\ \A j \in 1..Len(woken') : woken'[j] # fx'.who]_vars

C20_Witness ==
    /\ fx.op = "queue_full"
    /\ Len(taskQueue) = QueueSize
    /\ fx.msgs # <<>>

(***************************************************************************)
(* Task building on its own.  BuildSpec calls build_tasks_for_gcode with   *)
(* every configuration of at most two GCode triggers drawn from            *)
(* TriggerChoices, every command of BuildCommands, both clients and every  *)
(* stored state of BuildStates, once, and records the call and its result. *)
(***************************************************************************)
BuildCommands == {"G0", "M8", "M9"}
BuildStates == {"Idle", "Run"}

TriggerChoices(id) ==
    {GCodeTrigger(id, {m}, b, sync, st) :
        m \in {"M8", "M9"}, b \in {"forward", "capture"}, sync \in BOOLEAN,
        st \in {"", "Idle"}}

BuildConfigs ==
    {<<t1>> : t1 \in TriggerChoices("t1")}
        \cup {<<t1, t2>> : t1 \in TriggerChoices("t1"), t2 \in TriggerChoices("t2")}

Build(config, current, g, c) ==
    /\ lastBuild = <<>>
    /\ lastBuild' = <<[tm |-> [gcode |-> config, current |-> current],
                       gcode |-> g, client |-> c,
                       tasks |-> build_tasks_for_gcode(
                                     [gcode |-> config, current |-> current], g, c, 1)]>>
    /\ fx' = Quiet
    /\ EngineUnchanged
    /\ UNCHANGED <<devBuf, devQ, devBanner, responseQueue, events>>
    /\ UNCHANGED <<triggers, tmState, notices, pending, jobs>>

NextBuild ==
    \E config \in BuildConfigs, current \in BuildStates, g \in BuildCommands, c \in Clients :
        Build(config, current, g, c)

BuildSpec == Init /\ [][NextBuild]_vars

Manager ==
    [state |-> triggers.state, current |-> tmState, pending |-> pending, jobs |-> jobs]

InMap(m, trigger_id) == \E i \in 1..Len(m.pending) : m.pending[i].id = trigger_id

JobOf(m, trigger_id) ==
    LET i == CHOOSE k \in 1..Len(m.pending) : m.pending[k].id = trigger_id
    IN m.pending[i].job

\* dict.pop(trigger_id, None) and del dict[trigger_id]
MapPop(q, trigger_id) == SelectSeq(q, LAMBDA e : e.id # trigger_id)

\* TriggerManager._cancel_pending_trigger
_cancel_pending_trigger(m, trigger_id) ==
    IF InMap(m, trigger_id)
    THEN LET task == JobOf(m, trigger_id)
         IN [m EXCEPT !.jobs = IF m.jobs[task].st = "sleeping"
                               THEN [@ EXCEPT ![task].st = "cancelled"] ELSE @,
                      !.pending = MapPop(@, trigger_id)]
    ELSE m

\* StateTrigger.matches of the trigger with this id
StateMatches(m, trigger_id, state) ==
    \E i \in 1..Len(m.state) : m.state[i].id = trigger_id /\ state \in m.state[i].match

\* TriggerManager._check_consistency_for_pending_triggers: the ids come from
\* the keys of the map
RECURSIVE CancelEach(_, _)
CancelEach(m, ids) ==
    IF ids = <<>> THEN m
    ELSE CancelEach(_cancel_pending_trigger(m, Head(ids)), Tail(ids))

_check_consistency_for_pending_triggers(m, state) ==
    LET keys == [i \in 1..Len(m.pending) |-> m.pending[i].id]
        triggers_to_cancel == SelectSeq(keys, LAMBDA id : ~StateMatches(m, id, state))
    IN CancelEach(m, triggers_to_cancel)

\* TriggerManager.find_matching_state_triggers
find_matching_state_triggers(m, state) ==
    SelectSeq(m.state, LAMBDA trigger : state \in trigger.match)

\* the loop of on_device_status over the matching triggers; the callback
\* added to a task is the job's pending done callback
RECURSIVE Schedule(_, _, _)
Schedule(m, matching, state) ==
    IF matching = <<>> THEN m
    ELSE LET trigger == Head(matching)
             m1 == _cancel_pending_trigger(m, trigger.id)
             task == Len(m1.jobs) + 1
             m2 == [m1 EXCEPT !.jobs = Append(@, [trigger |-> trigger.id, st |-> "sleeping",
                                                  for |-> state, at |-> ""]),
                              !.pending = Append(@, [id |-> trigger.id, job |-> task])]
         IN Schedule(m2, Tail(matching), state)

\* TriggerManager.on_device_status
on_device_status(m, state) ==
    LET m1 == [m EXCEPT !.current = state]
        m2 == _check_consistency_for_pending_triggers(m1, state)
    IN Schedule(m2, find_matching_state_triggers(m2, state), state)

\* the cleanup callback that on_device_status adds to a task
cleanup(m, j) ==
    [m EXCEPT !.jobs[j].st = "closed",
              !.pending = MapPop(@, m.jobs[j].trigger)]

ManagerCommit(m) ==
    /\ tmState' = m.current
    /\ pending' = m.pending
    /\ jobs' = m.jobs

ProxyUnchanged ==
    /\ EngineUnchanged
    /\ fx' = Quiet
    /\ UNCHANGED <<devBuf, devQ, devBanner, responseQueue, events, triggers, lastBuild>>

\* the event loop runs the oldest on_device_status task
OnDeviceStatus ==
    /\ notices # <<>>
    /\ Len(jobs) < MaxJobs
    /\ ManagerCommit(on_device_status(Manager, Head(notices)))
    /\ notices' = Tail(notices)
    /\ ProxyUnchanged

\* _execute_state_trigger: the sleep of job j is over, the command runs
TimerFires(j) ==
    /\ j \in DOMAIN jobs
    /\ jobs[j].st = "sleeping"
    /\ jobs' = [jobs EXCEPT ![j].st = "ran", ![j].at = status]
    /\ UNCHANGED <<tmState, pending, notices>>
    /\ ProxyUnchanged

\* the done callback of job j runs
Cleanup(j) ==
    /\ j \in DOMAIN jobs
    /\ jobs[j].st \in {"cancelled", "ran"}
    /\ ManagerCommit(cleanup(Manager, j))
    /\ UNCHANGED notices
    /\ ProxyUnchanged

InitTriggers ==
    /\ InitEngine
    /\ triggers = StateConfig
    /\ NoTriggerActivity

\* what the client sends here: a status query, a feed hold, M5
TriggerCommands == {"?", "!", "M5"}

NextTriggers ==
    \/ Connect
    \/ \E shOk \in BOOLEAN : \E g \in TriggerCommands : QueueCommand("A", g, shOk)
    \/ \E shOk \in BOOLEAN : HandleLine(shOk)
    \/ LivenessProbe
    \/ \E k \in {"ok", "error"} : DevAck(k)
    \/ \E w \in StatusWords : DevStatus(w)
    \/ OnDeviceStatus
    \/ \E j \in 1..MaxJobs : TimerFires(j)
    \/ \E j \in 1..MaxJobs : Cleanup(j)

TriggerSpec == InitTriggers /\ [][NextTriggers]_vars

C14_Singularity ==
    \A i \in 1..Len(triggers.state) :
        Cardinality({j \in 1..Len(jobs) :
                        jobs[j].trigger = triggers.state[i].id /\ jobs[j].st = "sleeping"}) <= 1

\* C15: once the manager has been told a status that a state trigger's
\* regex does not match, no job of that trigger is still sleeping, a job
\* scheduled as a replacement included.
C15_Consistency ==
    \A j \in 1..Len(jobs) :
        jobs[j].st = "sleeping" => StateMatches(Manager, jobs[j].trigger, tmState)

\* C19: with no notification outstanding, a command that the regex of the
\* state-restricted trigger matches (M5) is captured by the trigger if and
\* only if the status of the device engine is the restriction (Idle) when
\* the command is processed.
C19_RestrictedTriggerSelection ==
    [][notices = <<>> /\ notices' = <<>> /\ fx'.op = "do_task"
          /\ (fx'.task.kind = "shell" \/ fx'.task.gcode = "M5")
          => (fx'.task.kind = "shell" <=> status = "Idle")]_vars

(***************************************************************************)
(* A command longer than the firmware's buffer.  OversizeSpec is the proxy *)
(* with clients that send G0 and LongCmd, whose char_count is above        *)
(* GrblBufferSize.                                                         *)
(***************************************************************************)
LongCmd == "G1 X10 Y2"
OversizeCommands == {"G0", LongCmd}

NextOversize ==
    \/ Connect
    \/ \E c \in Clients, shOk \in BOOLEAN : \E g \in OversizeCommands : QueueCommand(c, g, shOk)
    \/ \E shOk \in BOOLEAN : HandleLine(shOk)
    \/ LivenessProbe
    \/ \E k \in {"ok", "error"} : DevAck(k)
    \/ \E w \in StatusWords : DevStatus(w)

OversizeSpec == Init /\ [][NextOversize]_vars

\* C21: a GCodeTask whose char_count exceeds the firmware's buffer is
\* rejected at admission: it is never in the pending queue, and it is never
\* written to the serial port.
C21_OversizeRejected ==
    /\ \A i \in 1..Len(taskQueue) : taskQueue[i].char_count <= GrblBufferSize
    /\ \A k \in 1..Len(fx.wrote) : CharCount(fx.wrote[k].g) <= GrblBufferSize

\* the first half fails, the second holds: an oversize task is never written
C21_OversizeNeverWritten ==
    \A k \in 1..Len(fx.wrote) : CharCount(fx.wrote[k].g) <= GrblBufferSize

C22_OfflineGCodeRejected ==
    fx.op = "do_task" /\ ~fx.connectedWas /\ fx.task.kind = "gcode" /\ fx.task.should_respond
        => /\ \E k \in 1..Len(fx.msgs) :
                 fx.msgs[k].to = fx.task.client /\ fx.msgs[k].data = "error: device offline"
           /\ ~fx.enq /\ fx.wrote = <<>>

Held ==
    LET s0 == _initialize_device([Boot EXCEPT !.transport = TRUE])
        s1 == [s0 EXCEPT !.connected = TRUE, !.running = TRUE]
        s2 == _queue_command(s1, "A", "!", 11)
    IN _queue_command(s2, "B", "G0", 12)

InitHold ==
    /\ StartAt(Held)
    /\ ncmds = 0
    /\ owed = [c \in Clients |-> IF c = "B" THEN <<12>> ELSE <<>>]
    /\ pendingQ = <<>>
    /\ alarmSeen = FALSE
    /\ events = 0
    /\ fx = Quiet
    /\ triggers = PlainConfig
    /\ NoTriggerActivity

HoldSpec == InitHold /\ [][NextBacklog]_vars

\* C24: handling "!" leaves the status Hold and the resume event clear,
\* handling "~" leaves the status Run and the resume event set, and a step
\* that begins and ends with the resume event clear writes no task of the
\* pending queue to the serial port.
C24_HoldGate ==
    [][/\ fx'.op = "do_task" /\ connected /\ fx'.task.gcode = "!"
              => status' = "Hold" /\ ~resumeSet'
       /\ fx'.op = "do_task" /\ connected /\ fx'.task.gcode = "~"
              => status' = "Run" /\ resumeSet'
       /\ ~resumeSet /\ ~resumeSet'
              => \A k \in 1..Len(fx'.wrote) : fx'.wrote[k].c = "none"]_vars

\* the two preemptive updates on their own hold
C24_PreemptiveStatus ==
    [][/\ fx'.op = "do_task" /\ connected /\ fx'.task.gcode = "!"
              => status' = "Hold" /\ ~resumeSet'
       /\ fx'.op = "do_task" /\ connected /\ fx'.task.gcode = "~"
              => status' = "Run" /\ resumeSet']_vars

\* C25: no client's read loop is suspended inside the device engine: when
\* _queue_command has handed its task to do_task, the loop reads on.
C25_ReadLoopNotParked ==
    \A c \in Clients : ~Busy(c)

MaxOutbound == 2    \* connection tasks waiting in ConnectionManager.task_queue
MaxStops == 2       \* calls of GCodeProxyService.stop
MaxDelivered == 2   \* lines queued for or written to one client

\* what the engine hands to ConnectionManager.communicate; nl: the text
\* ends with a newline
OutboundData == {[text |-> "ok", nl |-> FALSE], [text |-> "<Idle>", nl |-> TRUE]}

\* target_uuid None: the task is a broadcast
Everyone == 0

ConnectionTask(data, target_uuid) == [data |-> data, target_uuid |-> target_uuid]

Put(f, k, v) == [x \in DOMAIN f \cup {k} |-> IF x = k THEN v ELSE f[x]]

Drop(f, k) == [x \in DOMAIN f \ {k} |-> f[x]]

\* the two maps of the connection manager
Registry == [writer_to_uuid |-> writer_to_uuid, uuid_to_writer |-> uuid_to_writer,
             issued |-> issued]

\* ConnectionManager.register_client; uuid4 draws an id not drawn before
register_client(m, writer) ==
    IF writer \in DOMAIN m.writer_to_uuid
    THEN m
    ELSE LET client_uuid == m.issued + 1
         IN [m EXCEPT !.writer_to_uuid = Put(@, writer, client_uuid),
                      !.uuid_to_writer = Put(@, client_uuid, writer),
                      !.issued = client_uuid]

unregister_clientBug(m, writer) ==
    IF writer \in DOMAIN m.writer_to_uuid
    THEN [m EXCEPT !.writer_to_uuid = Drop(@, writer)]
    ELSE m

\* ConnectionManager.unregister_client
unregister_client(m, writer) ==
    IF writer \in DOMAIN m.writer_to_uuid
    THEN LET client_uuid == m.writer_to_uuid[writer]
         IN [m EXCEPT !.writer_to_uuid = Drop(@, writer),
                      !.uuid_to_writer = Drop(@, client_uuid)]
    ELSE m

RECURSIVE UnregisterEach(_, _)
UnregisterEach(m, ws) ==
    IF ws = {} THEN m
    ELSE LET w == CHOOSE x \in ws : TRUE
         IN UnregisterEach(unregister_client(m, w), ws \ {w})

\* the writers _handle_task writes to
Addressed(m, task) ==
    IF task.target_uuid = Everyone
    THEN DOMAIN m.writer_to_uuid
    ELSE IF task.target_uuid \in DOMAIN m.uuid_to_writer
         THEN {m.uuid_to_writer[task.target_uuid]}
         ELSE {}

\* what writer.write is given: the data, ended by a newline
Terminated(data) == [data EXCEPT !.nl = TRUE]

\* ConnectionManager._handle_task for SEND_DATA, the only action the proxy
\* submits; the writes to the writers in fails raise.  The except branch
\* unregisters the writer and goes on with the next one
_handle_task(m, task, fails) ==
    LET writers == Addressed(m, task)
    IN [m |-> UnregisterEach(m, writers \cap fails),
        wrote |-> writers \ fails,
        failed |-> writers \cap fails]

RegistryCommit(m) ==
    /\ writer_to_uuid' = m.writer_to_uuid
    /\ uuid_to_writer' = m.uuid_to_writer
    /\ issued' = m.issued

engineVars == <<connected, running, transport, taskQueue, inFlight, bufferQuota,
                skippableOks, bufferPaused, resumeSet, status, homing, responseQueue,
                waiters, woken, homingTimers, swallowOk, okOnQuery, devBuf, devQ,
                devBanner, ncmds, owed, pendingQ, alarmSeen, events>>

\* a step of the connection manager or of a connection handler
NetStep ==
    /\ fx' = Quiet
    /\ UNCHANGED engineVars
    /\ UNCHANGED tmVars
    /\ UNCHANGED loopVars

\* GCodeServer._handle_client up to its first await: the connection is
\* registered and its task is tracked.  A StreamWriter serves one connection
Accept(w) ==
    /\ serverRunning
    /\ w \notin activeConnections \cup closedWriters
    /\ RegistryCommit(register_client(Registry, w))
    /\ activeConnections' = activeConnections \cup {w}
    /\ UNCHANGED <<outbound, workerRunning, serverRunning, closedWriters, failedWriters,
                   received, stops>>
    /\ NetStep

\* GCodeServer._handle_client once the read loop is over (end of file, idle
\* timeout, reset): the finally block unregisters and closes the writer
Hangup(w) ==
    /\ w \in activeConnections
    /\ RegistryCommit(unregister_client(Registry, w))
    /\ activeConnections' = activeConnections \ {w}
    /\ closedWriters' = closedWriters \cup {w}
    /\ UNCHANGED <<outbound, workerRunning, serverRunning, failedWriters, received, stops>>
    /\ NetStep

\* ConnectionManager.communicate: put_nowait on the unbounded queue
Communicate(data, target) ==
    /\ Len(outbound) < MaxOutbound
    /\ \A w \in Writers : Len(received[w]) + Len(outbound) < MaxDelivered
    /\ target <= issued
    /\ outbound' = Append(outbound, ConnectionTask(data, target))
    /\ UNCHANGED <<writer_to_uuid, uuid_to_writer, issued, workerRunning, activeConnections,
                   serverRunning, closedWriters, failedWriters, received, stops>>
    /\ NetStep

\* one round of ConnectionManager._process_queue
ProcessQueue(fails) ==
    /\ workerRunning
    /\ outbound # <<>>
    /\ fails \subseteq Addressed(Registry, Head(outbound))
    /\ LET task == Head(outbound)
           r == _handle_task(Registry, task, fails)
       IN /\ RegistryCommit(r.m)
          /\ received' = [w \in Writers |->
                            IF w \in r.wrote THEN Append(received[w], Terminated(task.data))
                            ELSE received[w]]
          /\ failedWriters' = failedWriters \cup r.failed
    /\ outbound' = Tail(outbound)
    /\ UNCHANGED <<workerRunning, activeConnections, serverRunning, closedWriters, stops>>
    /\ NetStep

\* GCodeProxyService.stop.  GCodeServer.stop cancels the connection
\* handlers, whose finally blocks unregister and close; ConnectionManager.stop
\* cancels the worker, closes the writers still registered and clears the
\* maps; GrblDevice.disconnect cancels the tasks it holds a reference to and
\* closes the protocol.  A supervisor inside connect() awaits the cancelled
\* wait task and ends; one that is waiting without being referenced is left
Stop ==
    /\ stops < MaxStops
    /\ stops' = stops + 1
    /\ serverRunning' = FALSE
    /\ activeConnections' = {}
    /\ workerRunning' = FALSE
    /\ closedWriters' = closedWriters \cup activeConnections \cup DOMAIN writer_to_uuid
    /\ writer_to_uuid' = EmptyMap
    /\ uuid_to_writer' = EmptyMap
    /\ UNCHANGED <<outbound, failedWriters, received, issued>>
    /\ deviceTasks' = {}
    /\ reconnecting' = FALSE
    /\ UNCHANGED orphans
    /\ LET s == [Cur(TRUE) EXCEPT !.running = FALSE, !.connected = FALSE,
                                  !.transport = FALSE,
                                  !.waiters = <<>>, !.woken = <<>>]
       IN /\ Commit(s)
          /\ fx' = Effect("stop", "none", NoTask, NoLine, s, TRUE)
    /\ owed' = NoneOwed
    /\ UNCHANGED tmVars
    /\ UNCHANGED <<swallowOk, okOnQuery, ncmds, pendingQ, alarmSeen, events>>

\* a _handle_reconnect task woken by the disconnect event after disconnect()
\* has cleared _running: it leaves its loop
SupervisorExits ==
    /\ orphans > 0
    /\ ~running /\ ~transport
    /\ orphans' = 0
    /\ fx' = Quiet
    /\ UNCHANGED <<deviceTasks, reconnecting>>
    /\ UNCHANGED engineVars
    /\ UNCHANGED tmVars
    /\ UNCHANGED netVars

NextService ==
    \/ Connect
    \/ ConnectionLost
    \/ Disconnect
    \/ \E w \in Writers : Accept(w)
    \/ \E w \in Writers : Hangup(w)
    \/ \E data \in OutboundData, target \in 0..2 : Communicate(data, target)
    \/ \E fails \in SUBSET Writers : ProcessQueue(fails)
    \/ Stop
    \/ SupervisorExits

ServiceSpec == Init /\ [][NextService]_vars

\* what a map holds
Values(f) == {f[x] : x \in DOMAIN f}

Dispatching == outbound # <<>> /\ workerRunning /\ outbound' = Tail(outbound)

\* the writers the write of this step fails on
FailingNow == failedWriters' \ failedWriters

\* C27: when the write to one client fails, that client is unregistered and
\* its writer is closed, and every other client the task is addressed to
\* stays registered and is written the data; so it is for every later task.
C27_WriteFailure ==
    [][Dispatching =>
          /\ \A w \in FailingNow :
                w \notin DOMAIN writer_to_uuid' /\ w \in closedWriters'
          /\ \A w \in Addressed(Registry, Head(outbound)) \ FailingNow :
                /\ w \in DOMAIN writer_to_uuid'
                /\ received'[w] = Append(received[w], Terminated(Head(outbound).data))]_vars

\* the part of C27 the worker keeps: the failing writer is unregistered, the
\* others are written the data and stay registered
C27_OthersStillReceive ==
    [][Dispatching =>
          /\ \A w \in FailingNow : w \notin DOMAIN writer_to_uuid'
          /\ \A w \in Addressed(Registry, Head(outbound)) \ FailingNow :
                /\ w \in DOMAIN writer_to_uuid'
                /\ received'[w] = Append(received[w], Terminated(Head(outbound).data))]_vars

\* GCodeProxyService.stop returns in this step
Stopping == stops' = stops + 1

\* the connections the server has accepted so far
Accepted == activeConnections \cup closedWriters

\* C28: stop completes whenever it is called, the first time, the second
\* time and when the device never connected; after it the server is stopped,
\* every client writer is closed, the registry is empty and no device loop
\* is left: no task the engine refers to, no reconnect supervisor.
C28_StopLeavesNothing ==
    [][Stopping =>
          /\ ~serverRunning' /\ ~workerRunning'
          /\ activeConnections' = {}
          /\ Accepted \subseteq closedWriters'
          /\ writer_to_uuid' = EmptyMap /\ uuid_to_writer' = EmptyMap
          /\ ~running' /\ ~connected'
          /\ deviceTasks' = {} /\ ~reconnecting'
          /\ orphans' = 0]_vars

\* the part of C28 stop keeps: the server and the worker are stopped, the
\* writers closed, the registry empty, the tasks the engine refers to
\* cancelled; a second stop leaves all of it so
C28_StopClosesClients ==
    [][Stopping =>
          /\ ~serverRunning' /\ ~workerRunning'
          /\ activeConnections' = {}
          /\ Accepted \subseteq closedWriters'
          /\ writer_to_uuid' = EmptyMap /\ uuid_to_writer' = EmptyMap
          /\ ~running' /\ ~connected'
          /\ deviceTasks' = {} /\ ~reconnecting'
          /\ (stops > 0 => UNCHANGED <<closedWriters, orphans, outbound, received>>)]_vars

(***************************************************************************)
(* The reconnect supervisor, with the scheduling of the event loop.        *)
(***************************************************************************)

\* connect() raises inside _handle_reconnect: wait_for_device has found the
\* port and opening it fails.  The supervisor logs, sleeps a second and
\* tests its loop condition: disconnect() has cleared _running, the loop ends
ConnectFails ==
    /\ reconnecting
    /\ ~connected
    /\ reconnecting' = FALSE
    /\ deviceTasks' = {}
    /\ UNCHANGED orphans
    /\ fx' = Quiet
    /\ UNCHANGED engineVars
    /\ UNCHANGED tmVars
    /\ UNCHANGED netVars

NextReconnect ==
    \/ Connect
    \/ ConnectFails
    \/ ConnectionLost
    \/ Disconnect
    \/ \E c \in Clients, shOk \in BOOLEAN : QueueCommand(c, "G0", shOk)
    \/ \E shOk \in BOOLEAN : HandleLine(shOk)
    \/ DevAck("ok")

\* the event loop runs a supervisor whose disconnect event is set; the
\* device becomes available, so a connect() that waits for it goes on
ReconnectSpec ==
    /\ Init
    /\ [][NextReconnect]_vars
    /\ WF_vars(Disconnect)
    /\ WF_vars(Connect)

\* the disconnect event is set and no supervisor has acted yet
DisconnectSignalled == connected /\ running /\ ~transport

\* connect() has run again: the engine is connected, the running state was
\* reset, a supervisor waits
Reconnected ==
    /\ fx.op = "connect" /\ fx.reset
    /\ connected /\ running /\ transport
    /\ "reconnect" \in deviceTasks
    /\ events > 0

\* C30: after the disconnect signal fires, the reconnect supervisor
\* eventually tears the loops down and completes the discovery-and-connect
\* path again, after which the engine is connected with its running state
\* reset and a reconnect supervisor is waiting.
C30_EventuallyReconnected == DisconnectSignalled ~> Reconnected

\* the supervisor that gave up: nothing is left that would call connect()
GaveUp == ~connected /\ ~reconnecting /\ deviceTasks = {} /\ events > 0

\* the part of C30 the supervisor keeps: it reconnects unless opening the
\* port fails once
C30_ReconnectedOrGaveUp == DisconnectSignalled ~> (Reconnected \/ GaveUp)

\* C31: when a status report shows Alarm while the stored status is already
\* Alarm, the engine resets its running state: the in-flight and the pending
\* queue are cleared and the quota is restored.
C31_RedundantAlarmResets ==
    fx.op = "line" /\ fx.line.kind = "status" /\ fx.line.word = "Alarm"
        /\ fx.statusWas = "Alarm"
    => /\ fx.reset
       /\ inFlight = <<>> /\ taskQueue = <<>>
       /\ bufferQuota = GrblBufferSize

\* C32: after a line containing "Grbl " is handled, the line has been
\* broadcast, the running state has been reset and the device status is Idle.
C32_BannerResetsToIdle ==
    fx.op = "line" /\ fx.line.kind = "banner"
    => /\ \E k \in 1..Len(fx.msgs) :
             fx.msgs[k].to = ALL /\ fx.msgs[k].data = LineText(fx.line)
       /\ fx.reset
       /\ inFlight = <<>> /\ taskQueue = <<>> /\ bufferQuota = GrblBufferSize
       /\ status = "Idle"

\* the part of C32 the handler keeps: the banner is broadcast and the running
\* state is reset; the status is left Unknown
C32_BannerResets ==
    fx.op = "line" /\ fx.line.kind = "banner"
    => /\ \E k \in 1..Len(fx.msgs) :
             fx.msgs[k].to = ALL /\ fx.msgs[k].data = LineText(fx.line)
       /\ fx.reset
       /\ inFlight = <<>> /\ taskQueue = <<>> /\ bufferQuota = GrblBufferSize
       /\ status = "Unknown"

HeldAlone ==
    LET s0 == _initialize_device([Boot EXCEPT !.transport = TRUE])
        s1 == [s0 EXCEPT !.connected = TRUE, !.running = TRUE]
    IN _queue_command(s1, "A", "!", 11)

InitSolo ==
    /\ StartAt(HeldAlone)
    /\ ncmds = 0
    /\ owed = NoneOwed
    /\ pendingQ = <<>>
    /\ alarmSeen = FALSE
    /\ events = 0
    /\ fx = Quiet
    /\ triggers = PlainConfig
    /\ NoTriggerActivity

SendResume == \E shOk \in BOOLEAN : QueueCommand("A", "~", shOk)

SendOrdinary == \E shOk \in BOOLEAN : QueueCommand("A", "G0", shOk)

ResponseLoop == \E shOk \in BOOLEAN : HandleLine(shOk)

Woken == \E shOk \in BOOLEAN : Wake(shOk)

NextSolo ==
    \/ SendResume
    \/ SendOrdinary
    \/ ResponseLoop
    \/ Woken
    \/ \E k \in {"ok", "error"} : DevAck(k)
    \/ DevAlarm

SoloSpec ==
    /\ InitSolo
    /\ [][NextSolo]_vars
    /\ WF_vars(SendResume)
    /\ WF_vars(ResponseLoop)
    /\ WF_vars(Woken)
    /\ WF_vars(DevAck("ok"))

\* the ordinary command of A was taken in during Hold and is not yet sent
OrdinaryHeld ==
    /\ ~resumeSet
    /\ \E i \in 1..Len(taskQueue) : taskQueue[i].client = "A" /\ taskQueue[i].gcode = "G0"

WroteNow(g) == \E k \in 1..Len(fx.wrote) : fx.wrote[k].g = g

\* C34: a client that sends "!", then an ordinary line, then "~" eventually
\* has "~" written to the serial port and the ordinary line sent: taking in
\* the ordinary line during Hold does not park the client's read loop.
C34_ResumeGetsThrough ==
    /\ OrdinaryHeld ~> WroteNow("~")
    /\ OrdinaryHeld ~> WroteNow("G0")

(***************************************************************************)
(* Hold with a command in flight.  The engine is connected, the G0 of      *)
(* client A was written and is in flight, then A's "!" was handled.        *)
(* HoldLinesSpec runs the response loop, client B and the firmware from    *)
(* there, with the scheduling of the event loop.                           *)
(***************************************************************************)
HeldInFlight ==
    LET s0 == _initialize_device([Boot EXCEPT !.transport = TRUE])
        s1 == [s0 EXCEPT !.connected = TRUE, !.running = TRUE]
        s2 == _queue_command(s1, "A", "G0", 11)
    IN _queue_command(s2, "A", "!", 12)

InitHoldLines ==
    /\ StartAt(HeldInFlight)
    /\ ncmds = 0
    /\ owed = [c \in Clients |-> IF c = "A" THEN <<11>> ELSE <<>>]
    /\ pendingQ = <<>>
    /\ alarmSeen = FALSE
    /\ events = 0
    /\ fx = Quiet
    /\ triggers = PlainConfig
    /\ NoTriggerActivity

NextHoldLines ==
    \/ \E shOk \in BOOLEAN : \E g \in CommandsOf("B") : QueueCommand("B", g, shOk)
    \/ ResponseLoop
    \/ Woken
    \/ \E k \in {"ok", "error"} : DevAck(k)
    \/ \E w \in StatusWords : DevStatus(w)
    \/ DevAlarm

HoldLinesSpec ==
    /\ InitHoldLines
    /\ [][NextHoldLines]_vars
    /\ WF_vars(ResponseLoop)
    /\ WF_vars(Woken)

\* in Hold, with a task pending, an ALARM: line or a status report waits in
\* the response queue
LineWaitsInHold ==
    /\ status = "Hold" /\ ~resumeSet
    /\ taskQueue # <<>>
    /\ responseQueue # <<>>
    /\ Head(responseQueue).kind \in {"ALARM", "status"}

LineHandled == fx.op = "line" /\ fx.line.kind \in {"ALARM", "status"}

\* C35: in Hold with tasks pending the response loop keeps handling device
\* lines: an ALARM: line or a status report that arrives, also after an ok
\* was handled during Hold, is eventually handled, without a "~" first.
C35_LinesHandledInHold == LineWaitsInHold ~> LineHandled


\* C36: every state-trigger job that is alive (sleeping, not cancelled) is
\* the entry of the pending map under its trigger id; the done callback of
\* a cancelled, replaced job leaves the entry of its replacement in place.
C36_AliveIsRecorded ==
    \A j \in 1..Len(jobs) :
        jobs[j].st = "sleeping"
        => InMap(Manager, jobs[j].trigger) /\ JobOf(Manager, jobs[j].trigger) = j


\* C37: whenever the stored status of the device engine changes, by a
\* status report or preemptively (`!`, `~`, ALARM: line, running-state
\* reset), the step queues a notification of the new status for the
\* trigger manager, so that the manager's status is the engine's once the
\* notifications have run.
C37_EveryChangeNotifies ==
    [][status' # status
          => /\ Len(notices') = Len(notices) + 1
             /\ notices'[Len(notices')] = status']_vars


\* C38: every admitted task that requires a response gets its terminal
\* response: no step, a running-state reset (soft reset, ALARM: line,
\* banner) that clears the queues included, removes such a task from the
\* pending or the in-flight queue without answering its client.
C38_NoTaskLeftUnanswered == fx.lost = <<>>


(***************************************************************************)
(* Streaming behind a synchronized shell task.  The engine is connected    *)
(* and client A's M9 (a ShellTask with wait_for_idle) was handled: the     *)
(* dwell was written and buffer filling is paused.  FlowSpec runs the      *)
(* clients, the response loop and a firmware that answers everything it    *)
(* holds; there is no reset, no feed hold and no disconnect.               *)
(***************************************************************************)
BehindShell ==
    LET s0 == _initialize_device([Boot EXCEPT !.transport = TRUE])
        s1 == [s0 EXCEPT !.connected = TRUE, !.running = TRUE]
    IN _queue_command(s1, "A", "M9", 11)

InitFlow ==
    /\ StartAt(BehindShell)
    /\ ncmds = 0
    /\ owed = [c \in Clients |-> IF c = "A" THEN <<11>> ELSE <<>>]
    /\ pendingQ = <<>>
    /\ alarmSeen = FALSE
    /\ events = 0
    /\ fx = Quiet
    /\ triggers = PlainConfig
    /\ NoTriggerActivity

\* what client B sends here: a motion command, a status query
FlowCommands == {"G0", "?"}

SendFlow == \E shOk \in BOOLEAN : \E g \in FlowCommands : QueueCommand("B", g, shOk)

DeviceAcks == DevAck("ok")

DeviceReports == DevStatus("Run")

NextFlow == SendFlow \/ ResponseLoop \/ DeviceAcks \/ DeviceReports

\* _response_loop can take its step exactly when the engine runs, a line
\* waits in the response queue and the loop is not parked
ResponseLoopReady == running /\ responseQueue # <<>> /\ ~Busy("resp")

\* weak fairness of the response loop: WF_vars(ResponseLoop) with its
\* ENABLED written as the guard of the step
ResponseLoopFair == []<>~ResponseLoopReady \/ []<><<ResponseLoop>>_vars

FlowSpec ==
    /\ InitFlow
    /\ [][NextFlow]_vars
    /\ ResponseLoopFair
    /\ WF_vars(DeviceAcks)
    /\ WF_vars(DeviceReports)

\* the GCodeTask of command i is on the pending queue
Admitted(i) ==
    \E k \in 1..Len(taskQueue) : taskQueue[k].kind = "gcode" /\ taskQueue[k].id = i

\* the last action wrote command i to the serial port
Written(i) == \E k \in 1..Len(fx.wrote) : fx.wrote[k].id = i

\* a command is written only when no GCodeTask admitted before it is pending
WrittenInOrder ==
    \A k \in 1..Len(fx.wrote) : \A j \in 1..Len(taskQueue) :
        fx.wrote[k].c \in Clients /\ fx.wrote[k].g \notin RealtimeCommands
           /\ taskQueue[j].kind = "gcode"
        => taskQueue[j].id > fx.wrote[k].id

Supervisors ==
    orphans + Cardinality(deviceTasks \cap {"reconnect", "wait"})

\* C40: at any time at most one response loop, one liveness loop and one
\* reconnect supervisor run for the device engine, across any sequence of
\* connect, disconnect-signal and reconnect events.
C40_OneSupervisor == Supervisors <= 1

====
